---- MODULE Spec2Model ----
(***************************************************************************)
(* Model of convert_image_to_icons.py: the background sampler              *)
(* (analyze_background_color), the content bounding box finder             *)
(* (find_content_bbox), the icon compositor (create_icon_from_cropped)     *)
(* and the driver (create_icons_from_source).                              *)
(*                                                                         *)
(* Images are arrays px[y][x] of RGB triples, indexed from 0 as in numpy.  *)
(* The float32 means of the code are kept as exact rationals: a mean is a  *)
(* record [sum |-> <<r, g, b>>, n |-> count] standing for sum / n.         *)
(***************************************************************************)
EXTENDS Integers, Sequences, FiniteSets, TLC

VARIABLES
    entry,           \* the function that is called
    pc,              \* position of the call
    img,             \* img / source_img: [h, w, px]
    margin_percent,  \* argument of analyze_background_color, find_content_bbox
    tolerance,       \* argument of find_content_bbox
    cropped,         \* cropped.size: <<width, height>>
    bg_color,        \* argument of create_icon_from_cropped, local of the driver
    icon_size,       \* argument of create_icon_from_cropped
    scale_up,        \* argument of create_icon_from_cropped: <<num, den>>
    ret,             \* the value returned (or the exception raised)
    idx,             \* driver: index into ICON_SIZES of the next entry
    attempted,       \* driver: the filenames whose icon was attempted, in order
    created,         \* driver: the filenames saved, in order
    errors           \* driver: the messages printed by the error branches

vars == <<entry, pc, img, margin_percent, tolerance, cropped, bg_color,
          icon_size, scale_up, ret, idx, attempted, created, errors>>

None == "None"

\* ---------------------------------------------------------------- bounds
MaxPixels == 5      \* arbitrary images have at most this many pixels
MaxSide == 5        \* block images have sides up to this
MaxCrop == 4        \* crops have sides 0..MaxCrop (and the 100 x 200 scenario)
MaxTarget == 4      \* icon sizes 1..MaxTarget (and the size 50 scenario)

\* ---------------------------------------------------------------- colours
White == <<255, 255, 255>>
NearWhite == <<250, 250, 250>>
Dark == <<120, 120, 120>>
Coral == <<255, 120, 120>>
Palette == {White, NearWhite, Dark}

Min(a, b) == IF a < b THEN a ELSE b
Max(a, b) == IF a > b THEN a ELSE b
Abs(a) == IF a < 0 THEN -a ELSE a

\* ---------------------------------------------------------------- images
UniformImage(h, w, c) ==
    [h |-> h, w |-> w, px |-> [y \in 0..(h - 1) |-> [x \in 0..(w - 1) |-> c]]]

\* a centred s x s block of colour d on a background of colour c
BlockImage(h, w, s, c, d) ==
    LET left == (w - s) \div 2
        top == (h - s) \div 2
    IN [h |-> h, w |-> w,
        px |-> [y \in 0..(h - 1) |-> [x \in 0..(w - 1) |->
                  IF /\ left <= x /\ x < left + s
                     /\ top <= y /\ y < top + s
                  THEN d ELSE c]]]

ArbitraryImages ==
    UNION {
        { [h |-> h, w |-> w, px |-> p] :
            p \in [0..(h - 1) -> [0..(w - 1) -> Palette]] } :
        <<h, w>> \in { hw \in (1..MaxPixels) \X (1..MaxPixels) :
                         hw[1] * hw[2] <= MaxPixels } }

BlockImages ==
    { BlockImage(h, w, s, c, d) :
        <<h, w, s, c, d>> \in
          { t \in (1..MaxSide) \X (1..MaxSide) \X (1..MaxSide)
                    \X {White, Dark} \X {NearWhite, Dark, Coral} :
              /\ t[3] <= Min(t[1], t[2])
              /\ t[4] # t[5] } }

UniformImages ==
    { UniformImage(h, w, c) :
        <<h, w, c>> \in (1..(2 * MaxSide)) \X (1..(2 * MaxSide)) \X {White, Coral} }

Images == ArbitraryImages \cup BlockImages \cup UniformImages

MarginPercents == {0, 5, 20, 34, 40, 50, 100}
Tolerances == {-1, 0, 8, 9, 20, 233, 234}

\* ---------------------------------------------------------------- sampler
\* numpy a[0:m] and a[-m:] on an axis of length n, as sets of indices;
\* a[-0:] is a[0:], the whole axis
SliceHead(n, m) == { i \in 0..(n - 1) : i < m }
\* a[-m:] read as "the last m", empty when m is 0
SliceTailLastM(n, m) == { i \in 0..(n - 1) : i >= n - m }
SliceTail(n, m) == IF m = 0 THEN 0..(n - 1)
                   ELSE { i \in 0..(n - 1) : i >= n - m }

\* int(min(h, w) * margin_percent / 100)
Margin(h, w, mp) == (Min(h, w) * mp) \div 100

RECURSIVE SumRow(_, _, _, _, _)
SumRow(image, y, xs, ch, x) ==
    IF x < 0 THEN 0
    ELSE (IF x \in xs THEN image.px[y][x][ch] ELSE 0)
         + SumRow(image, y, xs, ch, x - 1)

\* the sum of channel ch over the pixels of rows ys and columns xs
RECURSIVE SumOver(_, _, _, _, _)
SumOver(image, ys, xs, ch, y) ==
    IF y < 0 THEN 0
    ELSE (IF y \in ys THEN SumRow(image, y, xs, ch, image.w - 1) ELSE 0)
         + SumOver(image, ys, xs, ch, y - 1)

\* the four edge strips, as <<rows, columns>>
EdgeStrips(h, w, m) ==
    << <<SliceHead(h, m), 0..(w - 1)>>,
       <<SliceTail(h, m), 0..(w - 1)>>,
       <<0..(h - 1), SliceHead(w, m)>>,
       <<0..(h - 1), SliceTail(w, m)>> >>

StripSum(image, strips, ch) ==
    SumOver(image, strips[1][1], strips[1][2], ch, image.h - 1)
    + SumOver(image, strips[2][1], strips[2][2], ch, image.h - 1)
    + SumOver(image, strips[3][1], strips[3][2], ch, image.h - 1)
    + SumOver(image, strips[4][1], strips[4][2], ch, image.h - 1)

StripCount(strips) ==
    Cardinality(strips[1][1]) * Cardinality(strips[1][2])
    + Cardinality(strips[2][1]) * Cardinality(strips[2][2])
    + Cardinality(strips[3][1]) * Cardinality(strips[3][2])
    + Cardinality(strips[4][1]) * Cardinality(strips[4][2])

\* np.mean(all_edges, axis=0); the mean of no sample is nan
analyze_background_color(image, mp) ==
    LET strips == EdgeStrips(image.h, image.w, Margin(image.h, image.w, mp))
    IN [sum |-> <<StripSum(image, strips, 1), StripSum(image, strips, 2),
                  StripSum(image, strips, 3)>>,
        n |-> StripCount(strips)]

\* ---------------------------------------------------------------- bbox
Sq(a) == a * a

RECURSIVE GCD(_, _)
GCD(a, b) == IF b = 0 THEN a ELSE GCD(b, a % b)

\* the threshold applied to each channel apart instead of the RGB distance
IsContentPixelPerChannel(p, bg, tol) ==
    /\ bg.n > 0
    /\ \E c \in 1..3 : Abs(p[c] * bg.n - bg.sum[c]) > tol * bg.n

\* color_diff > tolerance for the pixel p, with the mean bg = sum / n:
\* sqrt(sum_c (p_c - bg_c)^2) > tolerance, scaled by n; a comparison with
\* nan (n = 0) is False
\* (the fraction sum / n is reduced first, which keeps the squares small)
IsContentPixel(p, bg, tol) ==
    /\ bg.n > 0
    /\ \/ tol < 0
       \/ LET g == GCD(GCD(bg.sum[1], bg.sum[2]), GCD(bg.sum[3], bg.n))
              n == bg.n \div g
              s == [c \in 1..3 |-> bg.sum[c] \div g]
          IN Sq(p[1] * n - s[1]) + Sq(p[2] * n - s[2]) + Sq(p[3] * n - s[3])
               > Sq(tol * n)

is_content(image, bg, tol) ==
    { yx \in (0..(image.h - 1)) \X (0..(image.w - 1)) :
        IsContentPixel(image.px[yx[1]][yx[2]], bg, tol) }

SetMin(S) == CHOOSE v \in S : \A u \in S : v <= u
SetMax(S) == CHOOSE v \in S : \A u \in S : v >= u

\* the fallback with height and width swapped
find_content_bbox_swapped(image, mp, tol) ==
    LET background_color == analyze_background_color(image, mp)
        content == is_content(image, background_color, tol)
    IN IF content = {} THEN <<0, 0, image.h, image.w>>
       ELSE <<SetMin({ yx[2] : yx \in content }), SetMin({ yx[1] : yx \in content }),
              SetMax({ yx[2] : yx \in content }) + 1,
              SetMax({ yx[1] : yx \in content }) + 1>>

\* right and bottom inclusive: the last index without the + 1
find_content_bbox_inclusive(image, mp, tol) ==
    LET background_color == analyze_background_color(image, mp)
        content == is_content(image, background_color, tol)
    IN IF content = {} THEN <<0, 0, image.w, image.h>>
       ELSE <<SetMin({ yx[2] : yx \in content }), SetMin({ yx[1] : yx \in content }),
              SetMax({ yx[2] : yx \in content }),
              SetMax({ yx[1] : yx \in content })>>

\* the box returned: <<left, top, right, bottom>>
find_content_bbox(image, mp, tol) ==
    LET background_color == analyze_background_color(image, mp)
        content == is_content(image, background_color, tol)
        row_indices == { yx[1] : yx \in content }
        col_indices == { yx[2] : yx \in content }
    IN IF content = {} THEN <<0, 0, image.w, image.h>>
       ELSE IF row_indices = {} \/ col_indices = {}
            THEN <<0, 0, image.w, image.h>>
       ELSE <<SetMin(col_indices), SetMin(row_indices),
              SetMax(col_indices) + 1, SetMax(row_indices) + 1>>

\* ---------------------------------------------------------------- calls
NoDriver ==
    /\ idx = 0 /\ attempted = <<>> /\ created = <<>> /\ errors = <<>>

InitImage ==
    /\ entry \in {"analyze_background_color", "find_content_bbox"}
    /\ pc = "call"
    /\ img \in Images
    /\ margin_percent \in MarginPercents
    /\ tolerance \in (IF entry = "find_content_bbox" THEN Tolerances ELSE {None})
    /\ cropped = None /\ bg_color = None /\ icon_size = None
    /\ scale_up = None /\ ret = None
    /\ NoDriver

AnalyzeBackgroundColor ==
    /\ entry = "analyze_background_color" /\ pc = "call"
    /\ ret' = analyze_background_color(img, margin_percent)
    /\ pc' = "return"
    /\ UNCHANGED <<entry, img, margin_percent, tolerance, cropped, bg_color,
                   icon_size, scale_up, idx, attempted, created, errors>>

FindContentBbox ==
    /\ entry = "find_content_bbox" /\ pc = "call"
    /\ bg_color' = analyze_background_color(img, margin_percent)
    /\ ret' = find_content_bbox(img, margin_percent, tolerance)
    /\ pc' = "return"
    /\ UNCHANGED <<entry, img, margin_percent, tolerance, cropped,
                   icon_size, scale_up, idx, attempted, created, errors>>

NextImage == AnalyzeBackgroundColor \/ FindContentBbox

SpecImage == InitImage /\ [][NextImage]_vars

\* ---------------------------------------------------------------- icon
\* int(): truncation instead of round()
Truncate(num, den, tie_up) == num \div den

\* round(num / den) for num >= 0, den > 0. The code rounds the float product
\* width * scale with round-half-to-even; the product of an exact tie k + 1/2
\* may come out a float just below or just above it, so a tie goes to
\* either neighbour (tie_up), every other value to the nearest integer.
Round(num, den, tie_up) ==
    LET q == num \div den
        r == num % den
    IN IF 2 * r < den THEN q
       ELSE IF 2 * r > den THEN q + 1
       ELSE IF tie_up THEN q + 1 ELSE q

\* max(1, int(round(dim * scale))), scale = (icon_size * scale_up) / max_dim
ScaledDim(dim, size, su, max_dim, tie_up) ==
    Max(1, Round(dim * size * su[1], max_dim * su[2], tie_up))

\* int(c) for each channel c of the mean: truncation
BgTuple(bg) == [c \in 1..3 |-> bg.sum[c] \div bg.n]

\* Image.new('RGB', (size, size), fill)
ImageNew(size, fill) ==
    [size |-> <<size, size>>,
     px |-> [xy \in (0..(size - 1)) \X (0..(size - 1)) |-> fill]]

\* a paste that grows the canvas to hold the whole box instead of clipping
PasteGrow(icon, content_size, offset) ==
    LET box == (offset[1]..(offset[1] + content_size[1] - 1))
                 \X (offset[2]..(offset[2] + content_size[2] - 1))
    IN [size |-> <<Max(icon.size[1], content_size[1]),
                   Max(icon.size[2], content_size[2])>>,
        px |-> [xy \in DOMAIN icon.px \cup box |->
                  IF xy \in box THEN "content" ELSE icon.px[xy]]]

\* icon.paste(resized, (x_offset, y_offset)): the box is clipped to the
\* canvas, whose size stays; the pixels in the box take the content
Paste(icon, content_size, offset) ==
    [icon EXCEPT !.px =
        [xy \in DOMAIN icon.px |->
            IF /\ offset[1] <= xy[1] /\ xy[1] < offset[1] + content_size[1]
               /\ offset[2] <= xy[2] /\ xy[2] < offset[2] + content_size[2]
            THEN "content" ELSE icon.px[xy]]]

\* the exception create_icon_from_cropped ends in, or None:
\* max_dim = 0 divides by zero before the resize; resizing a crop with one
\* empty axis is left to the library (lib_raises); int(nan) raises
CreateIconRaises(crop, bg, lib_raises) ==
    IF Max(crop[1], crop[2]) = 0 THEN "ZeroDivisionError"
    ELSE IF (crop[1] = 0 \/ crop[2] = 0) /\ lib_raises THEN "ResizeError"
    ELSE IF bg.n = 0 THEN "ValueError"
    ELSE None

create_icon_from_cropped(crop, bg, size, su, ties, lib_raises) ==
    LET max_dim == Max(crop[1], crop[2])
        raises == CreateIconRaises(crop, bg, lib_raises)
    IN IF raises # None
       THEN [status |-> "raise", error |-> raises,
             resize_called |-> raises # "ZeroDivisionError"]
       ELSE LET new_w == ScaledDim(crop[1], size, su, max_dim, ties[1])
                new_h == ScaledDim(crop[2], size, su, max_dim, ties[2])
                bg_tuple == BgTuple(bg)
                x_offset == (size - new_w) \div 2
                y_offset == (size - new_h) \div 2
            IN [status |-> "return", resize_called |-> TRUE,
                new_size |-> <<new_w, new_h>>, bg_tuple |-> bg_tuple,
                offset |-> <<x_offset, y_offset>>,
                icon |-> Paste(ImageNew(size, bg_tuple), <<new_w, new_h>>,
                               <<x_offset, y_offset>>)]

Crops == ((0..MaxCrop) \X (0..MaxCrop))
IconInputs ==
    (Crops \X (1..MaxTarget))
    \cup ({<<100, 200>>, <<200, 100>>, <<200, 200>>} \X {50})
ScaleUps == {<<1, 2>>, <<1, 1>>, <<115, 100>>, <<3, 2>>}
\* sampled means: 255, 254.6, 254.5 and (0.5, 0, 1.5)
BgColors == {[sum |-> <<255, 255, 255>>, n |-> 1],
             [sum |-> <<1273, 1273, 1273>>, n |-> 5],
             [sum |-> <<509, 509, 509>>, n |-> 2],
             [sum |-> <<1, 0, 3>>, n |-> 2]}

InitIcon ==
    /\ entry = "create_icon_from_cropped"
    /\ pc = "call"
    /\ \E ci \in IconInputs : cropped = ci[1] /\ icon_size = ci[2]
    /\ bg_color \in BgColors
    /\ scale_up \in ScaleUps
    /\ img = None /\ margin_percent = None /\ tolerance = None /\ ret = None
    /\ NoDriver

CreateIconFromCropped ==
    /\ entry = "create_icon_from_cropped" /\ pc = "call"
    /\ \E ties \in BOOLEAN \X BOOLEAN : \E lib_raises \in BOOLEAN :
          /\ cropped[1] = cropped[2] => ties[1] = ties[2]
          /\ ret' = create_icon_from_cropped(cropped, bg_color, icon_size,
                                              scale_up, ties, lib_raises)
    /\ pc' = ret'.status
    /\ UNCHANGED <<entry, img, margin_percent, tolerance, cropped, bg_color,
                   icon_size, scale_up, idx, attempted, created, errors>>

NextIcon == CreateIconFromCropped

SpecIcon == InitIcon /\ [][NextIcon]_vars

\* ---------------------------------------------------------------- driver
ICON_SIZES ==
    << <<16, "AppIcon-16x16.png">>, <<32, "AppIcon-32x32.png">>,
       <<64, "AppIcon-64x64.png">>, <<128, "AppIcon-128x128.png">>,
       <<256, "AppIcon-256x256.png">>, <<512, "AppIcon-512x512.png">>,
       <<1024, "AppIcon-1024x1024.png">> >>
SCALE_UP == <<115, 100>>
CENTER_FRACTION == <<1, 2>>
DefaultMarginPercent == 5

\* the box of the centre crop: <<left, top, right, bottom>>
CenterCropBox(w, h) ==
    LET side == (Min(w, h) * CENTER_FRACTION[1]) \div CENTER_FRACTION[2]
        cx == w \div 2
        cy == h \div 2
        left == Max(0, cx - side \div 2)
        top == Max(0, cy - side \div 2)
        right == Min(w, left + side)
        bottom == Min(h, top + side)
    IN <<left, top, right, bottom>>

SourceImages == BlockImages \cup UniformImages

InitDriver ==
    /\ entry = "create_icons_from_source"
    /\ pc = "start"
    /\ img \in SourceImages
    /\ margin_percent = None /\ tolerance = None
    /\ cropped = None /\ bg_color = None /\ icon_size = None
    /\ scale_up = None /\ ret = None
    /\ NoDriver

Driver(at) == entry = "create_icons_from_source" /\ pc = at

\* os.path.exists(INPUT_IMAGE) is false
SourceMissing ==
    /\ Driver("start")
    /\ errors' = Append(errors, <<"Error: Source image not found">>)
    /\ ret' = FALSE
    /\ pc' = "done"
    /\ UNCHANGED <<entry, img, margin_percent, tolerance, cropped, bg_color,
                   icon_size, scale_up, idx, attempted, created>>

\* Image.open(...).convert('RGB') raises
LoadFails ==
    /\ Driver("start")
    /\ errors' = Append(errors, <<"Error loading image">>)
    /\ ret' = FALSE
    /\ pc' = "done"
    /\ UNCHANGED <<entry, img, margin_percent, tolerance, cropped, bg_color,
                   icon_size, scale_up, idx, attempted, created>>

Load ==
    /\ Driver("start")
    /\ pc' = "loaded"
    /\ UNCHANGED <<entry, img, margin_percent, tolerance, cropped, bg_color,
                   icon_size, scale_up, ret, idx, attempted, created, errors>>

CenterCrop ==
    /\ Driver("loaded")
    /\ LET box == CenterCropBox(img.w, img.h)
       IN cropped' = <<box[3] - box[1], box[4] - box[2]>>
    /\ bg_color' = analyze_background_color(img, DefaultMarginPercent)
    /\ pc' = "cropped"
    /\ UNCHANGED <<entry, img, margin_percent, tolerance, icon_size, scale_up,
                   ret, idx, attempted, created, errors>>

\* os.makedirs(OUTPUT_DIR, exist_ok=True)
MakeDirs ==
    /\ Driver("cropped")
    /\ idx' = 1
    /\ pc' = "loop"
    /\ UNCHANGED <<entry, img, margin_percent, tolerance, cropped, bg_color,
                   icon_size, scale_up, ret, attempted, created, errors>>

\* os.makedirs raises: no handler, the exception leaves the driver
MakeDirsFails ==
    /\ Driver("cropped")
    /\ ret' = "OSError"
    /\ pc' = "raise"
    /\ UNCHANGED <<entry, img, margin_percent, tolerance, cropped, bg_color,
                   icon_size, scale_up, idx, attempted, created, errors>>

\* the body of the try for the entry idx fails
IconFails ==
    \E lib_raises \in BOOLEAN : \E save_raises \in BOOLEAN :
        \/ CreateIconRaises(cropped, bg_color, lib_raises) # None
        \/ save_raises

\* one iteration whose try block succeeds
IconCreated ==
    /\ Driver("loop") /\ idx <= Len(ICON_SIZES)
    /\ CreateIconRaises(cropped, bg_color, FALSE) = None
    /\ icon_size' = ICON_SIZES[idx][1]
    /\ scale_up' = SCALE_UP
    /\ attempted' = Append(attempted, ICON_SIZES[idx][2])
    /\ created' = Append(created, ICON_SIZES[idx][2])
    /\ idx' = idx + 1
    /\ UNCHANGED <<entry, pc, img, margin_percent, tolerance, cropped, bg_color,
                   ret, errors>>

\* the except branch read as "report and go on to the next size"
IconFailedContinues ==
    /\ Driver("loop") /\ idx <= Len(ICON_SIZES)
    /\ IconFails
    /\ icon_size' = ICON_SIZES[idx][1]
    /\ scale_up' = SCALE_UP
    /\ attempted' = Append(attempted, ICON_SIZES[idx][2])
    /\ errors' = Append(errors, <<"Error creating", ICON_SIZES[idx][2]>>)
    /\ idx' = idx + 1
    /\ UNCHANGED <<entry, pc, img, margin_percent, tolerance, cropped, bg_color,
                   ret, created>>

\* one iteration whose try block raises: the except branch prints the
\* error for the file and returns False
IconFailed ==
    /\ Driver("loop") /\ idx <= Len(ICON_SIZES)
    /\ IconFails
    /\ icon_size' = ICON_SIZES[idx][1]
    /\ scale_up' = SCALE_UP
    /\ attempted' = Append(attempted, ICON_SIZES[idx][2])
    /\ errors' = Append(errors, <<"Error creating", ICON_SIZES[idx][2]>>)
    /\ ret' = FALSE
    /\ pc' = "done"
    /\ UNCHANGED <<entry, img, margin_percent, tolerance, cropped, bg_color,
                   idx, created>>

\* the loop is over: return True
ReturnTrue ==
    /\ Driver("loop") /\ idx > Len(ICON_SIZES)
    /\ ret' = TRUE
    /\ pc' = "done"
    /\ UNCHANGED <<entry, img, margin_percent, tolerance, cropped, bg_color,
                   icon_size, scale_up, idx, attempted, created, errors>>

Next ==
    \/ SourceMissing
    \/ LoadFails
    \/ Load
    \/ CenterCrop
    \/ MakeDirs
    \/ MakeDirsFails
    \/ IconCreated
    \/ IconFailed
    \/ ReturnTrue

Init == InitDriver

Spec == Init /\ [][Next]_vars

\* ================================================================ claims
Returned(f) == entry = f /\ pc = "return"

Pixels(image) == (0..(image.h - 1)) \X (0..(image.w - 1))
EdgeDist(image, y, x) == Min(Min(y, x), Min(image.h - 1 - y, image.w - 1 - x))
Corner(image) == image.px[0][0]
Centre(image) == image.px[(image.h - 1) \div 2][(image.w - 1) \div 2]
IsUniform(image) ==
    \A yx \in Pixels(image) : image.px[yx[1]][yx[2]] = Corner(image)

\* the thickness of the outer border that has the colour of the corner
BorderThickness(image) ==
    SetMax({ b \in 0..Min(image.h, image.w) :
               \A yx \in Pixels(image) :
                  EdgeDist(image, yx[1], yx[2]) < b
                      => image.px[yx[1]][yx[2]] = Corner(image) })

\* the mean m is exactly the colour c
MeanIs(m, c) == m.n > 0 /\ \A ch \in 1..3 : m.sum[ch] = c[ch] * m.n

\* the pixels the sampler reads at margin m
Sampled(image, m) ==
    LET strips == EdgeStrips(image.h, image.w, m)
    IN UNION { strips[k][1] \X strips[k][2] : k \in 1..4 }

\* C2: with an outer border of thickness b >= 1 of colour C, a centre that
\* differs from C and a margin m <= b (m = 0 included), the sampler returns
\* exactly C.
C2_BorderColourReturned ==
    (/\ Returned("analyze_background_color")
     /\ BorderThickness(img) >= 1
     /\ Centre(img) # Corner(img)
     /\ Margin(img.h, img.w, margin_percent) <= BorderThickness(img))
    => MeanIs(ret, Corner(img))

\* the part of C2 with m >= 1, which the code does satisfy
C2_BorderColourReturnedPositiveMargin ==
    (/\ Returned("analyze_background_color")
     /\ BorderThickness(img) >= 1
     /\ Centre(img) # Corner(img)
     /\ Margin(img.h, img.w, margin_percent) >= 1
     /\ Margin(img.h, img.w, margin_percent) <= BorderThickness(img))
    => MeanIs(ret, Corner(img))

\* C3: the sampler averages a non-empty set of pixels for every image and
\* every margin percentage; at margin 0 the sample holds at least the
\* outermost 1-pixel ring, and a uniform image yields exactly its colour.
C3_SampleNeverEmpty ==
    Returned("analyze_background_color") =>
        LET m == Margin(img.h, img.w, margin_percent)
        IN /\ ret.n > 0
           /\ Sampled(img, m) # {}
           /\ m = 0 => \A yx \in Pixels(img) :
                          EdgeDist(img, yx[1], yx[2]) = 0 => yx \in Sampled(img, m)
           /\ IsUniform(img) => MeanIs(ret, Corner(img))

C3_Witness ==
    /\ Returned("analyze_background_color")
    /\ img = UniformImage(10, 10, Coral)
    /\ margin_percent = 5
    /\ Margin(img.h, img.w, margin_percent) = 0
    /\ MeanIs(ret, Coral)

\* the image is a centred s x s block of colour d on colour c
IsBlock(image, s, c, d) ==
    /\ s <= Min(image.h, image.w)
    /\ c # d
    /\ image = BlockImage(image.h, image.w, s, c, d)

BlockBox(image, s) ==
    <<(image.w - s) \div 2, (image.h - s) \div 2,
      (image.w - s) \div 2 + s, (image.h - s) \div 2 + s>>

BlockColours == {White, NearWhite, Dark, Coral}

\* tol < RGB distance of c and d
BelowDistance(tol, c, d) ==
    /\ tol >= 0
    /\ Sq(tol) < Sq(c[1] - d[1]) + Sq(c[2] - d[2]) + Sq(c[3] - d[3])

C5_UniformImageFullBox ==
    (Returned("find_content_bbox") /\ IsUniform(img) /\ tolerance > 0)
    => /\ is_content(img, bg_color, tolerance) = {}
       /\ ret = <<0, 0, img.w, img.h>>

C5_Witness ==
    /\ Returned("find_content_bbox")
    /\ IsUniform(img) /\ img.w = 3 /\ img.h = 7
    /\ tolerance = 20
    /\ ret = <<0, 0, 3, 7>>

\* C10: the box returned lies inside the image with left <= right and
\* top <= bottom, and when some pixel is content it is the smallest box
\* holding every content pixel: each of its four edges holds one.
C10_BoxInsideAndTight ==
    Returned("find_content_bbox") =>
        LET content == is_content(img, bg_color, tolerance)
            left == ret[1]
            top == ret[2]
            right == ret[3]
            bottom == ret[4]
        IN /\ 0 <= left /\ left <= right /\ right <= img.w
           /\ 0 <= top /\ top <= bottom /\ bottom <= img.h
           /\ content # {} =>
                /\ \A yx \in content : /\ top <= yx[1] /\ yx[1] < bottom
                                       /\ left <= yx[2] /\ yx[2] < right
                /\ \E yx \in content : yx[1] = top
                /\ \E yx \in content : yx[1] = bottom - 1
                /\ \E yx \in content : yx[2] = left
                /\ \E yx \in content : yx[2] = right - 1

C10_Witness ==
    /\ Returned("find_content_bbox")
    /\ is_content(img, bg_color, tolerance) # {}
    /\ ret[1] > 0 /\ ret[3] < img.w /\ ret[2] > 0 /\ ret[4] < img.h
    /\ ret[3] - ret[1] >= 2
    /\ is_content(img, bg_color, tolerance) # Pixels(img)

Finished(f) == entry = f /\ pc \in {"return", "raise"}

\* the canvas pixel <<x, y>> lies under the pasted content
Covered(r, xy) ==
    /\ r.offset[1] <= xy[1] /\ xy[1] < r.offset[1] + r.new_size[1]
    /\ r.offset[2] <= xy[2] /\ xy[2] < r.offset[2] + r.new_size[2]

Canvas(size) == (0..(size - 1)) \X (0..(size - 1))

\* C6: for a crop with width, height >= 1 the compositor returns an image of
\* exactly icon_size x icon_size; content larger than the canvas is clipped
\* to it, and every canvas pixel the content does not cover has the fill.
C6_IconSizeAndClipping ==
    (Finished("create_icon_from_cropped") /\ cropped[1] >= 1 /\ cropped[2] >= 1)
    => /\ pc = "return"
       /\ ret.icon.size = <<icon_size, icon_size>>
       /\ DOMAIN ret.icon.px = Canvas(icon_size)
       /\ \A xy \in Canvas(icon_size) :
             ret.icon.px[xy] = IF Covered(ret, xy) THEN "content" ELSE ret.bg_tuple

C6_Witness ==
    /\ Finished("create_icon_from_cropped") /\ pc = "return"
    /\ cropped = <<1, 4>> /\ icon_size = 4 /\ scale_up = <<3, 2>>
    /\ ret.new_size[2] = 6 /\ ret.offset[2] = -1
    /\ ret.icon.size = <<4, 4>>
    /\ ret.icon.px[<<0, 0>>] = ret.bg_tuple
    /\ ret.icon.px[<<ret.offset[1], 0>>] = "content"
    /\ ret.icon.px[<<ret.offset[1], 3>>] = "content"

\* n is max(1, r) for an integer r nearest to num / den
IsRounded(n, num, den) ==
    \E r \in 0..(n + 1) : /\ 2 * Abs(r * den - num) <= den
                           /\ n = Max(1, r)

C8_FillRoundedToNearest ==
    (/\ Finished("create_icon_from_cropped") /\ pc = "return"
     /\ cropped[1] >= 1 /\ cropped[2] >= 1)
    => \A c \in 1..3 :
          2 * Abs(ret.bg_tuple[c] * bg_color.n - bg_color.sum[c]) <= bg_color.n

\* what the code does instead: each channel is the mean truncated
C8_FillTruncated ==
    (/\ Finished("create_icon_from_cropped") /\ pc = "return"
     /\ cropped[1] >= 1 /\ cropped[2] >= 1)
    => \A c \in 1..3 :
          /\ ret.bg_tuple[c] * bg_color.n <= bg_color.sum[c]
          /\ bg_color.sum[c] < (ret.bg_tuple[c] + 1) * bg_color.n

\* C9: a crop whose width or height is 0 ends in an error before any resize
\* or canvas creation, and no icon is returned.
C9_ZeroCropFailsFast ==
    (Finished("create_icon_from_cropped") /\ (cropped[1] = 0 \/ cropped[2] = 0))
    => /\ pc = "raise"
       /\ ~ret.resize_called

\* the part of C9 the code does satisfy: both dimensions 0
C9_EmptyCropDividesByZero ==
    (Finished("create_icon_from_cropped") /\ cropped = <<0, 0>>)
    => /\ pc = "raise"
       /\ ret.error = "ZeroDivisionError"
       /\ ~ret.resize_called

FileNames == [i \in 1..Len(ICON_SIZES) |-> ICON_SIZES[i][2]]

\* the files whose failure was reported
ReportedFiles ==
    { errors[k][2] : k \in { j \in 1..Len(errors) : errors[j][1] = "Error creating" } }

\* C1 as stated: after the icon of one entry fails, the failure is reported
\* for the item, every remaining size is still attempted, and the driver
\* returns False after the last size.
C1_FailureDoesNotAbort ==
    (entry = "create_icons_from_source" /\ pc = "done" /\ ReportedFiles # {})
    => /\ attempted = FileNames
       /\ ret = FALSE

\* C1 amended: when the icon of one entry fails, the failure is reported for
\* that item, the driver returns False at once and attempts no later size:
\* the sizes before it are created, the ones after it are never attempted.
C1_FailureAborts ==
    (entry = "create_icons_from_source" /\ ReportedFiles # {})
    => /\ pc = "done"
       /\ ret = FALSE
       /\ attempted = SubSeq(FileNames, 1, idx)
       /\ created = SubSeq(FileNames, 1, idx - 1)
       /\ errors = << <<"Error creating", FileNames[idx]>> >>

C1_Witness ==
    /\ entry = "create_icons_from_source" /\ pc = "done"
    /\ errors = << <<"Error creating", "AppIcon-64x64.png">> >>
    /\ created = <<"AppIcon-16x16.png", "AppIcon-32x32.png">>
    /\ Len(attempted) = 3
    /\ ret = FALSE

====
